---- MODULE Spec2Model ----
(***************************************************************************)
(* Los Angeles building-permit dashboard (src/app.py).                     *)
(*                                                                         *)
(* The script is executed top to bottom once when the page opens and once  *)
(* more after every widget change: load three tables, preprocess the       *)
(* permit table, left-join the contractor projection, read the three       *)
(* sidebar widgets, filter, and build the four summaries.  One action of   *)
(* this module is one complete execution of the script.                    *)
(*                                                                         *)
(* Conventions.  A nullable cell is <<>> (null: None / NaN / NaT) or <<v>>.*)
(* Free-text cells (ISSUE_DATE, VALUATION) hold v as a sequence of         *)
(* one-character strings so that parsing is computed character by          *)
(* character.  A data frame is a sequence of records, in row order.        *)
(***************************************************************************)
EXTENDS Integers, Sequences, FiniteSets

\* ------------------------------------------------------------------------
\* Bounds of the explored inputs
\* ------------------------------------------------------------------------
MaxPermits == 2

\* ------------------------------------------------------------------------
\* Nullable cells
\* ------------------------------------------------------------------------
NULL == <<>>

Val(v) == <<v>>

IsNull(c) == c = <<>>

NotNull(c) == c # <<>>

Get(c) == c[1]

\* ------------------------------------------------------------------------
\* Generic sequence helpers
\* ------------------------------------------------------------------------
Range(s) == {s[i] : i \in DOMAIN s}

RECURSIVE SumSeq(_)
SumSeq(s) == IF s = <<>> THEN 0 ELSE Head(s) + SumSeq(Tail(s))

RECURSIVE Flatten(_)
Flatten(ss) == IF ss = <<>> THEN <<>> ELSE Head(ss) \o Flatten(Tail(ss))

SeqsUpTo(S, n) == UNION {[1..k -> S] : k \in 0..n}

Perms(s) ==
    {[i \in DOMAIN s |-> s[p[i]]] :
        p \in {q \in [DOMAIN s -> DOMAIN s] : \A i, j \in DOMAIN s : q[i] = q[j] => i = j}}

RECURSIVE Gcd(_, _)
Gcd(a, b) == IF b = 0 THEN a ELSE Gcd(b, a % b)

Abs(n) == IF n < 0 THEN -n ELSE n

\* ------------------------------------------------------------------------
\* Text: digits and the two parsers of the preprocessing section
\* ------------------------------------------------------------------------
Digits == {"0", "1", "2", "3", "4", "5", "6", "7", "8", "9"}

DigitVal(c) ==
    CASE c = "0" -> 0 [] c = "1" -> 1 [] c = "2" -> 2 [] c = "3" -> 3
      [] c = "4" -> 4 [] c = "5" -> 5 [] c = "6" -> 6 [] c = "7" -> 7
      [] c = "8" -> 8 [] c = "9" -> 9

AllDigits(s) == \A i \in DOMAIN s : s[i] \in Digits

RECURSIVE ToNat(_)
ToNat(s) == IF s = <<>> THEN 0
            ELSE 10 * ToNat(SubSeq(s, 1, Len(s) - 1)) + DigitVal(s[Len(s)])

IsLeap(y) == (y % 4 = 0 /\ y % 100 # 0) \/ y % 400 = 0

DaysInMonth(y, m) ==
    IF m = 2 THEN (IF IsLeap(y) THEN 29 ELSE 28)
    ELSE IF m \in {4, 6, 9, 11} THEN 30 ELSE 31

\* pandas.Timestamp covers 1677-09-21T00:12:43 .. 2262-04-11T23:47:16; a
\* midnight date outside it is out of bounds and coerced to NaT.
InTimestampBounds(y, m, d) ==
    /\ \/ y > 1677
       \/ y = 1677 /\ (m > 9 \/ (m = 9 /\ d >= 22))
    /\ \/ y < 2262
       \/ y = 2262 /\ (m < 4 \/ (m = 4 /\ d <= 11))

\* pd.to_datetime(..., errors='coerce') on one cell holding a calendar date
\* written YYYY-MM-DD: the parsed date <<y, m, d>>, or null for a null cell
\* and for any text that is not a valid date.
ToDatetime(c) ==
    IF IsNull(c) THEN NULL
    ELSE LET s == Get(c) IN
         IF /\ Len(s) = 10
            /\ s[5] = "-" /\ s[8] = "-"
            /\ AllDigits(SubSeq(s, 1, 4))
            /\ AllDigits(SubSeq(s, 6, 7))
            /\ AllDigits(SubSeq(s, 9, 10))
         THEN LET y == ToNat(SubSeq(s, 1, 4))
                  m == ToNat(SubSeq(s, 6, 7))
                  d == ToNat(SubSeq(s, 9, 10))
              IN IF /\ m \in 1..12
                    /\ d \in 1..DaysInMonth(y, m)
                    /\ InTimestampBounds(y, m, d)
                 THEN Val(<<y, m, d>>)
                 ELSE NULL
         ELSE NULL

\* Variant of DtYear: a missing timestamp is given the first slider year.
DtYearFilled(t) == IF IsNull(t) THEN Val(2013) ELSE Val(Get(t)[1])

\* Series.dt.year: the year of the timestamp, null for NaT.
DtYear(t) == IF IsNull(t) THEN NULL ELSE Val(Get(t)[1])

\* Series.astype(str): a null cell becomes the text "None".
AsTypeStr(c) == IF IsNull(c) THEN <<"N", "o", "n", "e">> ELSE Get(c)

\* Series.str.replace(ch, "", regex=False): every occurrence of ch removed.
StrReplace(s, ch) == SelectSeq(s, LAMBDA x : x # ch)

\* pd.to_numeric(..., errors='coerce') on one text: an optionally signed run
\* of digits gives its value, any other text gives null.
ToNumeric(s) ==
    IF s # <<>> /\ AllDigits(s) THEN Val(ToNat(s))
    ELSE IF Len(s) > 1 /\ Head(s) = "-" /\ AllDigits(Tail(s)) THEN Val(-ToNat(Tail(s)))
    ELSE NULL

\* Section 2 of the script applied to one permit row.
PreprocessRow(r) ==
    LET ts == ToDatetime(r.ISSUE_DATE) IN
    [ISSUE_DATE               |-> ts,
     YEAR                     |-> DtYear(ts),
     VALUATION                |-> ToNumeric(StrReplace(StrReplace(AsTypeStr(r.VALUATION), "$"), ",")),
     PERMIT_TYPE              |-> r.PERMIT_TYPE,
     CONTRACTOR_BUSINESS_NAME |-> r.CONTRACTOR_BUSINESS_NAME,
     CENSUS_TRACT             |-> r.CENSUS_TRACT]

Preprocess(df) == [i \in DOMAIN df |-> PreprocessRow(df[i])]

\* ------------------------------------------------------------------------
\* Join (section 2, records.merge(..., how='left'))
\* ------------------------------------------------------------------------
\* contractors[['BUSINESS_NAME', 'BUSINESS_TYPE']]
Projection(df) ==
    [i \in DOMAIN df |-> [BUSINESS_NAME |-> df[i].BUSINESS_NAME,
                          BUSINESS_TYPE |-> df[i].BUSINESS_TYPE]]

JoinedRow(p, name, type) ==
    [ISSUE_DATE               |-> p.ISSUE_DATE,
     YEAR                     |-> p.YEAR,
     VALUATION                |-> p.VALUATION,
     PERMIT_TYPE              |-> p.PERMIT_TYPE,
     CONTRACTOR_BUSINESS_NAME |-> p.CONTRACTOR_BUSINESS_NAME,
     CENSUS_TRACT             |-> p.CENSUS_TRACT,
     BUSINESS_NAME            |-> name,
     BUSINESS_TYPE            |-> type]

\* The right rows whose key equals the left key, in right order.  pandas
\* compares join keys so that a null key matches a null key.
Matches(p, right) ==
    SelectSeq(right, LAMBDA k : k.BUSINESS_NAME = p.CONTRACTOR_BUSINESS_NAME)

\* Variant of MergeRow: an inner join, a left row without a match is dropped.
MergeRowInner(p, right) ==
    LET ms == Matches(p, right) IN
    [i \in DOMAIN ms |-> JoinedRow(p, ms[i].BUSINESS_NAME, ms[i].BUSINESS_TYPE)]

\* The output rows of one left row: one per match, or one null-filled row.
MergeRow(p, right) ==
    LET ms == Matches(p, right) IN
    IF ms = <<>> THEN <<JoinedRow(p, NULL, NULL)>>
    ELSE [i \in DOMAIN ms |-> JoinedRow(p, ms[i].BUSINESS_NAME, ms[i].BUSINESS_TYPE)]

Merge(left, right) == Flatten([i \in DOMAIN left |-> MergeRow(left[i], right)])

\* ------------------------------------------------------------------------
\* Sidebar widgets (section 3)
\* ------------------------------------------------------------------------
SliderMin == 2013

SliderMax == 2023

SliderDefault == <<2013, 2023>>

\* The positions the exploration moves the two handles to; the widget only
\* returns pairs lo <= hi inside [min_value, max_value].
SliderValues ==
    {v \in {<<2013, 2023>>, <<2013, 2019>>, <<2020, 2020>>, <<2020, 2023>>} :
        SliderMin <= v[1] /\ v[1] <= v[2] /\ v[2] <= SliderMax}

Column(df, col) == [i \in DOMAIN df |-> df[i][col]]

\* Series.dropna()
DropNa(cells) == SelectSeq(cells, NotNull)

\* Series.unique(): the distinct cells in order of first appearance.
RECURSIVE Unique(_)
Unique(cells) ==
    IF cells = <<>> THEN <<>>
    ELSE LET init == Unique(SubSeq(cells, 1, Len(cells) - 1))
             last == cells[Len(cells)]
         IN IF last \in Range(init) THEN init ELSE Append(init, last)

\* Variant of Options: the null cell is kept among the options.
OptionsKeepNa(df, col) == Unique(Column(df, col))

\* df[col].dropna().unique().tolist()
Options(df, col) == Unique(DropNa(Column(df, col)))

\* ------------------------------------------------------------------------
\* Filter (section 3, the boolean mask of filtered_df)
\* ------------------------------------------------------------------------
\* Comparisons of a nullable number with a bound: false on null (NaN).
Ge(c, n) == NotNull(c) /\ Get(c) >= n

\* Variant of Le: the upper bound is exclusive.
LeStrict(c, n) == NotNull(c) /\ Get(c) < n

Le(c, n) == NotNull(c) /\ Get(c) <= n

\* Variant of IsIn: a null cell passes the membership test.
IsInOrNull(c, values) == IsNull(c) \/ c \in values

\* Series.isin(values)
IsIn(c, values) == c \in values

Mask(r, yr, permits, businesses) ==
    /\ Ge(r.YEAR, yr[1])
    /\ Le(r.YEAR, yr[2])
    /\ IsIn(r.PERMIT_TYPE, permits)
    /\ IsIn(r.BUSINESS_TYPE, businesses)

\* Variant of FilterRows: the mask is misaligned by one row, row i is kept
\* when the mask of row i + 1 is true.
FilterRowsShifted(df, yr, permits, businesses) ==
    LET keep == {i \in DOMAIN df : i < Len(df) /\ Mask(df[i + 1], yr, permits, businesses)}
        F[i \in 0..Len(df)] ==
            IF i = 0 THEN <<>> ELSE IF i \in keep THEN Append(F[i - 1], df[i]) ELSE F[i - 1]
    IN F[Len(df)]

FilterRows(df, yr, permits, businesses) ==
    SelectSeq(df, LAMBDA r : Mask(r, yr, permits, businesses))

\* ------------------------------------------------------------------------
\* Aggregation (section 5)
\* ------------------------------------------------------------------------
\* Lexicographic rank of the permit-type names that occur in the data.
StrRank(v) == CASE v = "Building" -> 1 [] v = "Electrical" -> 2

\* Sort key of a group label: permit types are text, years and tracts numbers.
KeyRank(col, v) == IF col = "PERMIT_TYPE" THEN StrRank(v) ELSE v

\* The values of a set in ascending order of rank.
RECURSIVE SortedKeys(_, _)
SortedKeys(col, S) ==
    IF S = {} THEN <<>>
    ELSE LET m == CHOOSE x \in S : \A y \in S : KeyRank(col, x) <= KeyRank(col, y)
         IN <<m>> \o SortedKeys(col, S \ {m})

\* DataFrame.groupby(col): the group labels, sorted; null labels are dropped.
GroupKeys(df, col) == SortedKeys(col, {Get(c) : c \in Range(DropNa(Column(df, col)))})

\* The rows of one group, in frame order.
Group(df, col, k) == SelectSeq(df, LAMBDA r : r[col] = Val(k))

\* 'nunique': the number of distinct non-null cells.
NUnique(cells) == Cardinality(Range(DropNa(cells)))

\* 'count': the number of non-null cells.
Count(cells) == Len(DropNa(cells))

\* A mean is kept exact, as the reduced fraction num/den.
Fraction(n, d) == LET g == Gcd(Abs(n), d) IN [num |-> n \div g, den |-> d \div g]

\* Variant of Mean: the mean of no cells is 0.
MeanZeroWhenEmpty(cells) ==
    LET vs == DropNa(cells) IN
    IF vs = <<>> THEN Val(Fraction(0, 1))
    ELSE Val(Fraction(SumSeq([i \in DOMAIN vs |-> Get(vs[i])]), Len(vs)))

\* 'mean': the mean of the non-null cells, null when there is none.
Mean(cells) ==
    LET vs == DropNa(cells) IN
    IF vs = <<>> THEN NULL
    ELSE Val(Fraction(SumSeq([i \in DOMAIN vs |-> Get(vs[i])]), Len(vs)))

\* Tab 1 before sorting: groupby("PERMIT_TYPE").agg(...).reset_index()
AggPermit(df) ==
    LET ks == GroupKeys(df, "PERMIT_TYPE") IN
    [i \in DOMAIN ks |->
        LET g == Group(df, "PERMIT_TYPE", ks[i]) IN
        [PERMIT_TYPE     |-> ks[i],
         num_contractors |-> NUnique(Column(g, "CONTRACTOR_BUSINESS_NAME")),
         num_permits     |-> Count(Column(g, "PERMIT_TYPE"))]]

\* Tab 2: groupby("CENSUS_TRACT").agg(...).reset_index()
AggScatter(df) ==
    LET ks == GroupKeys(df, "CENSUS_TRACT") IN
    [i \in DOMAIN ks |->
        LET g == Group(df, "CENSUS_TRACT", ks[i]) IN
        [CENSUS_TRACT    |-> ks[i],
         num_contractors |-> NUnique(Column(g, "CONTRACTOR_BUSINESS_NAME")),
         avg_cost        |-> Mean(Column(g, "VALUATION"))]]

\* Variant of AggTime: the distinct permit types are counted, not the rows.
AggTimeNUnique(df) ==
    LET ks == GroupKeys(df, "YEAR") IN
    [i \in DOMAIN ks |->
        [YEAR         |-> ks[i],
         permit_count |-> NUnique(Column(Group(df, "YEAR", ks[i]), "PERMIT_TYPE"))]]

\* Tab 3 before sorting: groupby("YEAR").agg(...).reset_index()
AggTime(df) ==
    LET ks == GroupKeys(df, "YEAR") IN
    [i \in DOMAIN ks |->
        LET g == Group(df, "YEAR", ks[i]) IN
        [YEAR         |-> ks[i],
         permit_count |-> Count(Column(g, "PERMIT_TYPE"))]]

\* Variant of SortValues: the ascending flag is ignored.
SortValuesAscending(df, col, ascending) ==
    {s \in Perms(df) : \A i, j \in DOMAIN s : i < j => s[i][col] <= s[j][col]}

\* DataFrame.sort_values(col, ascending): the default sort is not stable, so
\* every arrangement of the rows that is ordered on col is a possible result.
SortValues(df, col, ascending) ==
    {s \in Perms(df) :
        \A i, j \in DOMAIN s :
            i < j => IF ascending THEN s[i][col] <= s[j][col] ELSE s[i][col] >= s[j][col]}

\* df_time.rename(columns={"permit_count": "Number of Permits"})
RenameTime(df) ==
    [i \in DOMAIN df |-> [YEAR |-> df[i].YEAR, NumberOfPermits |-> df[i].permit_count]]

Smallest(S) == IF S = {} THEN NULL ELSE Val(CHOOSE x \in S : \A y \in S : x <= y)

Largest(S) == IF S = {} THEN NULL ELSE Val(CHOOSE x \in S : \A y \in S : x >= y)

\* describe() of a numeric column: count, mean, min and max of the non-null
\* cells (std and the quartiles are not modelled).
DescribeNumeric(cells) ==
    LET vs == {Get(c) : c \in Range(DropNa(cells))} IN
    [count |-> Count(cells), mean |-> Mean(cells), min |-> Smallest(vs), max |-> Largest(vs)]

\* describe() of a text column: count and number of distinct values of the
\* non-null cells (top and freq are not modelled).
DescribeObject(cells) == [count |-> Count(cells), unique |-> NUnique(cells)]

\* describe() of a timestamp column: count of the non-null cells (mean, min,
\* max and the quartiles are not modelled).
DescribeTimestamp(cells) == [count |-> Count(cells)]

\* Tab 4: filtered_df.describe(include='all'), one entry per column.
Describe(df) ==
    [ISSUE_DATE               |-> DescribeTimestamp(Column(df, "ISSUE_DATE")),
     YEAR                     |-> DescribeNumeric(Column(df, "YEAR")),
     VALUATION                |-> DescribeNumeric(Column(df, "VALUATION")),
     PERMIT_TYPE              |-> DescribeObject(Column(df, "PERMIT_TYPE")),
     CONTRACTOR_BUSINESS_NAME |-> DescribeObject(Column(df, "CONTRACTOR_BUSINESS_NAME")),
     CENSUS_TRACT             |-> DescribeNumeric(Column(df, "CENSUS_TRACT")),
     BUSINESS_NAME            |-> DescribeObject(Column(df, "BUSINESS_NAME")),
     BUSINESS_TYPE            |-> DescribeObject(Column(df, "BUSINESS_TYPE"))]

\* ------------------------------------------------------------------------
\* The warehouse tables the exploration loads
\* ------------------------------------------------------------------------
PermitRow(date, valuation, type, contractor, tract) ==
    [ISSUE_DATE               |-> date,
     VALUATION                |-> valuation,
     PERMIT_TYPE              |-> type,
     CONTRACTOR_BUSINESS_NAME |-> contractor,
     CENSUS_TRACT             |-> tract]

PermitRows ==
    { PermitRow(Val(<<"2","0","1","9","-","0","5","-","0","1">>), Val(<<"$","1","2",",","0","0","0">>),
                Val("Electrical"), Val("Acme"), Val(1)),
      PermitRow(Val(<<"2","0","2","0","-","1","3","-","0","1">>), Val(<<"N","/","A">>),
                Val("Electrical"), Val("Bolt"), Val(1)),
      PermitRow(Val(<<"2","0","1","2","-","0","7","-","0","4">>), Val(<<"5","0","0">>),
                Val("Building"), Val("Acme"), Val(2)),
      PermitRow(Val(<<"2","0","2","0","-","0","2","-","2","9">>), NULL,
                Val("Building"), NULL, NULL),
      PermitRow(Val(<<"2","0","2","0","-","1","1","-","3","0">>), Val(<<"1",",","5","0","0">>),
                Val("Electrical"), Val("Bolt"), Val(2)),
      PermitRow(Val(<<"2","0","2","3","-","1","2","-","3","1">>), Val(<<"-","7">>),
                NULL, Val("Acme"), Val(1)) }

ContractorRow(name, type) == [BUSINESS_NAME |-> name, BUSINESS_TYPE |-> type]

\* The contractor tables explored: empty; one contractor; unique names;
\* a duplicated name; a null name and a null type beside a plain row.
ContractorTables ==
    { <<>>,
      <<ContractorRow(Val("Acme"), Val("Plumbing"))>>,
      <<ContractorRow(Val("Acme"), Val("Plumbing")), ContractorRow(Val("Bolt"), Val("General"))>>,
      <<ContractorRow(Val("Acme"), Val("Plumbing")), ContractorRow(Val("Acme"), Val("General"))>>,
      <<ContractorRow(NULL, Val("Plumbing")), ContractorRow(Val("Bolt"), Val("General")),
        ContractorRow(Val("Acme"), NULL)>> }

TractTable == <<[TRACT |-> 1], [TRACT |-> 2]>>

\* session.table(name).to_pandas(): the rows of the warehouse table.
ToPandas(table) == table

\* ------------------------------------------------------------------------
\* State
\* ------------------------------------------------------------------------
VARIABLES
    warehouse,            \* the three tables of LA_PERMIT_DATA.PUBLIC
    rendered,             \* the script has run at least once in this session
    records,              \* script variables, as the last run left them
    census_tracts,
    contractors,
    merged_df,
    year_range,
    permit_options,
    selected_permits,
    business_options,
    selected_businesses,
    filtered_df,
    df_permit,
    df_scatter,
    df_time,
    summary               \* filtered_df.describe(include='all')

vars == <<warehouse, rendered, records, census_tracts, contractors, merged_df,
          year_range, permit_options, selected_permits, business_options,
          selected_businesses, filtered_df, df_permit, df_scatter, df_time, summary>>

Init ==
    /\ warehouse \in [PERMIT_RECORDS : SeqsUpTo(PermitRows, MaxPermits),
                      CENSUS_TRACTS  : {TractTable},
                      MASTER_LICENSE : ContractorTables]
    /\ rendered = FALSE
    /\ records = <<>>
    /\ census_tracts = <<>>
    /\ contractors = <<>>
    /\ merged_df = <<>>
    /\ year_range = SliderDefault
    /\ permit_options = <<>>
    /\ selected_permits = {}
    /\ business_options = <<>>
    /\ selected_businesses = {}
    /\ filtered_df = <<>>
    /\ df_permit = <<>>
    /\ df_scatter = <<>>
    /\ df_time = <<>>
    /\ summary = Describe(<<>>)

\* Variant of Script: a rerun narrows the previous filtered_df instead of
\* filtering merged_df.
ScriptNarrowing(first, yr, permits, businesses) ==
    /\ records' = Preprocess(ToPandas(warehouse.PERMIT_RECORDS))
    /\ census_tracts' = ToPandas(warehouse.CENSUS_TRACTS)
    /\ contractors' = ToPandas(warehouse.MASTER_LICENSE)
    /\ merged_df' = Merge(records', Projection(contractors'))
    /\ year_range' = IF first THEN SliderDefault ELSE yr
    /\ permit_options' = Options(records', "PERMIT_TYPE")
    /\ selected_permits' = IF first THEN Range(permit_options') ELSE permits
    /\ business_options' = Options(contractors', "BUSINESS_TYPE")
    /\ selected_businesses' = IF first THEN Range(business_options') ELSE businesses
    /\ filtered_df' = FilterRows(IF first THEN merged_df' ELSE filtered_df,
                                 year_range', selected_permits', selected_businesses')
    /\ df_permit' \in SortValues(AggPermit(filtered_df'), "num_contractors", FALSE)
    /\ df_scatter' = AggScatter(filtered_df')
    /\ df_time' \in {RenameTime(t) : t \in SortValues(AggTime(filtered_df'), "YEAR", TRUE)}
    /\ summary' = Describe(filtered_df')
    /\ rendered' = TRUE
    /\ UNCHANGED warehouse

\* One execution of the script, top to bottom.  first tells whether the
\* widgets are created by this run (they return their defaults) or already
\* exist (they return the value the session holds for them: yr, permits,
\* businesses).
Script(first, yr, permits, businesses) ==
    /\ records' = Preprocess(ToPandas(warehouse.PERMIT_RECORDS))
    /\ census_tracts' = ToPandas(warehouse.CENSUS_TRACTS)
    /\ contractors' = ToPandas(warehouse.MASTER_LICENSE)
    /\ merged_df' = Merge(records', Projection(contractors'))
    /\ year_range' = IF first THEN SliderDefault ELSE yr
    /\ permit_options' = Options(records', "PERMIT_TYPE")
    /\ selected_permits' = IF first THEN Range(permit_options') ELSE permits
    /\ business_options' = Options(contractors', "BUSINESS_TYPE")
    /\ selected_businesses' = IF first THEN Range(business_options') ELSE businesses
    /\ filtered_df' = FilterRows(merged_df', year_range', selected_permits', selected_businesses')
    /\ df_permit' \in SortValues(AggPermit(filtered_df'), "num_contractors", FALSE)
    /\ df_scatter' = AggScatter(filtered_df')
    /\ df_time' \in {RenameTime(s) : s \in SortValues(AggTime(filtered_df'), "YEAR", TRUE)}
    /\ summary' = Describe(filtered_df')
    /\ rendered' = TRUE
    /\ UNCHANGED warehouse

\* The page is opened: first run of the script.
OpenPage ==
    /\ ~rendered
    /\ Script(TRUE, SliderDefault, {}, {})

\* The user moves the year slider; the script reruns.
ChangeYearRange ==
    /\ rendered
    /\ \E v \in SliderValues :
          /\ v # year_range
          /\ Script(FALSE, v, selected_permits, selected_businesses)

\* The user changes the permit-type selection; the script reruns.
ChangePermitTypes ==
    /\ rendered
    /\ \E sel \in SUBSET Range(permit_options) :
          /\ sel # selected_permits
          /\ Script(FALSE, year_range, sel, selected_businesses)

\* The user changes the business-type selection; the script reruns.
ChangeBusinessTypes ==
    /\ rendered
    /\ \E sel \in SUBSET Range(business_options) :
          /\ sel # selected_businesses
          /\ Script(FALSE, year_range, selected_permits, sel)

Next ==
    \/ OpenPage
    \/ ChangeYearRange
    \/ ChangePermitTypes
    \/ ChangeBusinessTypes

Spec == Init /\ [][Next]_vars

\* ------------------------------------------------------------------------
\* Vocabulary of the properties
\* ------------------------------------------------------------------------
\* The permit columns of a merged row.
PermitPart(m) ==
    [ISSUE_DATE               |-> m.ISSUE_DATE,
     YEAR                     |-> m.YEAR,
     VALUATION                |-> m.VALUATION,
     PERMIT_TYPE              |-> m.PERMIT_TYPE,
     CONTRACTOR_BUSINESS_NAME |-> m.CONTRACTOR_BUSINESS_NAME,
     CENSUS_TRACT             |-> m.CENSUS_TRACT]

Occurrences(x, df) == Cardinality({i \in DOMAIN df : df[i] = x})

\* k of a permit row: the contractor rows carrying its business name.
KeyMatches(p) ==
    Cardinality({i \in DOMAIN contractors :
                    contractors[i].BUSINESS_NAME = p.CONTRACTOR_BUSINESS_NAME})

UniqueBusinessNames ==
    \A i, j \in DOMAIN contractors :
        contractors[i].BUSINESS_NAME = contractors[j].BUSINESS_NAME => i = j

ObservedYears == {Get(c) : c \in Range(Column(records, "YEAR")) \ {NULL}}

ObservedPermitTypes == Range(Column(records, "PERMIT_TYPE")) \ {NULL}

ObservedBusinessTypes == Range(Column(contractors, "BUSINESS_TYPE")) \ {NULL}

\* The widgets hold what they held when they were created.
AtDefaults ==
    /\ year_range = SliderDefault
    /\ selected_permits = Range(permit_options)
    /\ selected_businesses = Range(business_options)

\* An ISSUE_DATE text that is not a date.
Unparseable(c) == NotNull(c) /\ IsNull(ToDatetime(c))

FirstRun == ~rendered /\ rendered'

\* ------------------------------------------------------------------------
\* C1
\* ------------------------------------------------------------------------
\* C1 as stated: with the criteria the widgets hold at startup, filtered_df
\* has exactly the rows of merged_df.
C1_DefaultKeepsAll == rendered /\ AtDefaults => filtered_df = merged_df

\* C1, amended: with the criteria the widgets hold at startup, filtered_df has
\* exactly the rows of merged_df whose YEAR is non-null and within 2013..2023,
\* whose PERMIT_TYPE is non-null and whose BUSINESS_TYPE is non-null.
C1_DefaultKeepsComplete ==
    rendered /\ AtDefaults =>
        filtered_df = SelectSeq(merged_df, LAMBDA r :
                          /\ NotNull(r.YEAR)
                          /\ Get(r.YEAR) \in 2013..2023
                          /\ NotNull(r.PERMIT_TYPE)
                          /\ NotNull(r.BUSINESS_TYPE))

\* The default criteria keep some rows and drop others.
C1_Witness ==
    /\ rendered
    /\ AtDefaults
    /\ filtered_df # <<>>
    /\ Len(filtered_df) < Len(merged_df)

\* ------------------------------------------------------------------------
\* C2
\* ------------------------------------------------------------------------
InView(r) ==
    /\ NotNull(r.YEAR)
    /\ year_range[1] <= Get(r.YEAR)
    /\ Get(r.YEAR) <= year_range[2]
    /\ NotNull(r.PERMIT_TYPE)
    /\ r.PERMIT_TYPE \in selected_permits
    /\ NotNull(r.BUSINESS_TYPE)
    /\ r.BUSINESS_TYPE \in selected_businesses

\* C2: a merged row is in the FilteredView if and only if its year is non-null
\* and within the inclusive range, its permit type is non-null and allowed,
\* and its business type is non-null and allowed; the view is a sub-sequence
\* of the merged rows.
C2_FilterContract == rendered => filtered_df = SelectSeq(merged_df, InView)

\* A row with a null permit type that passes the two other tests is left out
\* while another row is kept.
C2_Witness ==
    /\ rendered
    /\ \E j \in DOMAIN merged_df :
          /\ IsNull(merged_df[j].PERMIT_TYPE)
          /\ Ge(merged_df[j].YEAR, year_range[1])
          /\ NotNull(merged_df[j].YEAR) /\ Get(merged_df[j].YEAR) <= year_range[2]
          /\ merged_df[j].BUSINESS_TYPE \in selected_businesses
    /\ filtered_df # <<>>

\* ------------------------------------------------------------------------
\* C3
\* ------------------------------------------------------------------------
\* C3: every permit row appears in merged_df max(1, k) times, k the number
\* of contractor rows with its business name (join keys are compared as the
\* join compares them, a null name equals a null name); with k = 0 its
\* BUSINESS_TYPE is null; with unique contractor names merged_df has as many
\* rows as the permit table.
C3_JoinMultiplicity ==
    rendered =>
        /\ \A p \in Range(records) :
              LET k == KeyMatches(p)
                  copies == {j \in DOMAIN merged_df : PermitPart(merged_df[j]) = p}
              IN /\ Cardinality(copies) = Occurrences(p, records) * (IF k = 0 THEN 1 ELSE k)
                 /\ k = 0 => \A j \in copies : IsNull(merged_df[j].BUSINESS_TYPE)
        /\ \A j \in DOMAIN merged_df : PermitPart(merged_df[j]) \in Range(records)
        /\ UniqueBusinessNames => Len(merged_df) = Len(records)

\* One permit row has no contractor and another has two.
C3_Witness ==
    /\ rendered
    /\ \E p \in Range(records) : KeyMatches(p) = 0
    /\ \E p \in Range(records) : KeyMatches(p) >= 2

\* ------------------------------------------------------------------------
\* C4
\* ------------------------------------------------------------------------
\* C4: a permit row whose ISSUE_DATE is unparseable has a null YEAR and no
\* copy of it is in the FilteredView, whatever year range is selected.
C4_UnparseableExcluded ==
    rendered =>
        \A i \in DOMAIN records :
            Unparseable(warehouse.PERMIT_RECORDS[i].ISSUE_DATE) =>
                /\ IsNull(records[i].YEAR)
                /\ \A j \in DOMAIN filtered_df : PermitPart(filtered_df[j]) # records[i]

\* Under the full year range, an unparseable row passes the permit-type and
\* business-type tests.
C4_Witness ==
    /\ rendered
    /\ year_range = <<2013, 2023>>
    /\ \E i \in DOMAIN records :
          /\ Unparseable(warehouse.PERMIT_RECORDS[i].ISSUE_DATE)
          /\ records[i].PERMIT_TYPE \in selected_permits
          /\ \E j \in DOMAIN merged_df :
                /\ PermitPart(merged_df[j]) = records[i]
                /\ merged_df[j].BUSINESS_TYPE \in selected_businesses

\* ------------------------------------------------------------------------
\* C5
\* ------------------------------------------------------------------------
\* C5 as stated: the first run leaves the year range at [min observed YEAR,
\* max observed YEAR], the slider bounds cover the observed years, and the
\* two selections hold all observed non-null categories.
C5_DefaultsObserved ==
    [][FirstRun =>
          /\ ObservedYears' # {} =>
                /\ year_range' = <<Get(Smallest(ObservedYears')), Get(Largest(ObservedYears'))>>
                /\ \A y \in ObservedYears' : SliderMin <= y /\ y <= SliderMax
          /\ selected_permits' = ObservedPermitTypes'
          /\ selected_businesses' = ObservedBusinessTypes']_vars

\* C5, amended: the first run leaves the year range at the fixed pair
\* [2013, 2023], every selectable year lies in 2013..2023 whatever years
\* the data holds, and the two selections hold all observed non-null permit
\* types (permit table) and business types (contractor table).
C5_DefaultsFixedRange ==
    [][/\ FirstRun =>
             /\ year_range' = <<2013, 2023>>
             /\ selected_permits' = ObservedPermitTypes'
             /\ selected_businesses' = ObservedBusinessTypes'
       /\ 2013 <= year_range'[1] /\ year_range'[1] <= year_range'[2] /\ year_range'[2] <= 2023]_vars

\* At the defaults, the data holds a year below the slider and a null permit
\* type.
C5_Witness ==
    /\ rendered
    /\ AtDefaults
    /\ \E y \in ObservedYears : y < 2013
    /\ NULL \in Range(Column(records, "PERMIT_TYPE"))

\* ------------------------------------------------------------------------
\* C6
\* ------------------------------------------------------------------------
RowsOfType(t) == {j \in DOMAIN filtered_df : filtered_df[j].PERMIT_TYPE = Val(t)}

\* C6: df_permit has one row per permit type of the FilteredView, with the
\* number of distinct non-null contractor names and the number of rows of
\* that type, ordered by num_contractors descending.
C6_ByPermitType ==
    rendered =>
        /\ {df_permit[i].PERMIT_TYPE : i \in DOMAIN df_permit} =
               {Get(filtered_df[j].PERMIT_TYPE) : j \in DOMAIN filtered_df}
        /\ \A i, j \in DOMAIN df_permit :
              df_permit[i].PERMIT_TYPE = df_permit[j].PERMIT_TYPE => i = j
        /\ \A i \in DOMAIN df_permit :
              LET rows == RowsOfType(df_permit[i].PERMIT_TYPE) IN
              /\ df_permit[i].num_contractors =
                     Cardinality({filtered_df[j].CONTRACTOR_BUSINESS_NAME : j \in rows} \ {NULL})
              /\ df_permit[i].num_permits = Cardinality(rows)
        /\ \A i, j \in DOMAIN df_permit :
              i < j => df_permit[i].num_contractors >= df_permit[j].num_contractors

\* Two permit types with different contractor counts, the later label first.
C6_Witness ==
    /\ rendered
    /\ Len(df_permit) = 2
    /\ df_permit[1].num_contractors > df_permit[2].num_contractors
    /\ df_permit[1].PERMIT_TYPE = "Electrical"

\* ------------------------------------------------------------------------
\* C7
\* ------------------------------------------------------------------------
\* C7: df_time has one row per year of the FilteredView, its count is the
\* number of rows of that year, the counts sum to the size of the view and
\* the years are strictly ascending.
C7_ByYear ==
    rendered =>
        /\ {df_time[i].YEAR : i \in DOMAIN df_time} =
               {Get(filtered_df[j].YEAR) : j \in DOMAIN filtered_df}
        /\ \A i \in DOMAIN df_time :
              df_time[i].NumberOfPermits =
                  Cardinality({j \in DOMAIN filtered_df : filtered_df[j].YEAR = Val(df_time[i].YEAR)})
        /\ SumSeq([i \in DOMAIN df_time |-> df_time[i].NumberOfPermits]) = Len(filtered_df)
        /\ \A i, j \in DOMAIN df_time : i < j => df_time[i].YEAR < df_time[j].YEAR

\* Two rows of one year and permit type.
C7_Witness ==
    /\ rendered
    /\ Len(df_time) = 1
    /\ df_time[1].NumberOfPermits = 2
    /\ filtered_df[1].PERMIT_TYPE = filtered_df[2].PERMIT_TYPE

\* ------------------------------------------------------------------------
\* C8
\* ------------------------------------------------------------------------
NoNumbers == [count |-> 0, mean |-> NULL, min |-> NULL, max |-> NULL]

NoTexts == [count |-> 0, unique |-> 0]

\* C8: over an empty FilteredView the run completes with empty by-permit-type,
\* by-tract and by-year tables and a summary of zero counts and null
\* statistics.
C8_EmptyView ==
    rendered /\ filtered_df = <<>> =>
        /\ df_permit = <<>>
        /\ df_scatter = <<>>
        /\ df_time = <<>>
        /\ summary.ISSUE_DATE = [count |-> 0]
        /\ summary.YEAR = NoNumbers
        /\ summary.VALUATION = NoNumbers
        /\ summary.CENSUS_TRACT = NoNumbers
        /\ summary.PERMIT_TYPE = NoTexts
        /\ summary.CONTRACTOR_BUSINESS_NAME = NoTexts
        /\ summary.BUSINESS_NAME = NoTexts
        /\ summary.BUSINESS_TYPE = NoTexts

\* Years [2020, 2020], permits {Electrical}, businesses {Plumbing} over a
\* single 2019 Electrical/Plumbing row.
C8_Witness ==
    /\ rendered
    /\ Len(merged_df) = 1
    /\ merged_df[1].YEAR = Val(2019)
    /\ merged_df[1].PERMIT_TYPE = Val("Electrical")
    /\ merged_df[1].BUSINESS_TYPE = Val("Plumbing")
    /\ year_range = <<2020, 2020>>
    /\ selected_permits = {Val("Electrical")}
    /\ selected_businesses = {Val("Plumbing")}
    /\ filtered_df = <<>>
    /\ df_time = <<>>

\* ------------------------------------------------------------------------
\* C9
\* ------------------------------------------------------------------------
\* C9: filtering the FilteredView again with the same criteria gives the
\* FilteredView.
C9_Idempotent ==
    rendered =>
        FilterRows(filtered_df, year_range, selected_permits, selected_businesses) = filtered_df

\* The criteria keep some rows and drop others.
C9_Witness ==
    /\ rendered
    /\ filtered_df # <<>>
    /\ Len(filtered_df) < Len(merged_df)
    /\ ~AtDefaults

====
